---- MODULE Spec2Model ----
(***************************************************************************)
(* Model of TypeScriptNextjsAnalyser (packages/context-worker): the REST   *)
(* API extraction for Next.js route files.  Strings are sequences of       *)
(* one-character strings, so that includes / indexOf / endsWith /          *)
(* substring / toUpperCase / the quote-stripping regex are computed the    *)
(* way the JavaScript code computes them.                                  *)
(***************************************************************************)
EXTENDS Integers, Sequences, FiniteSets, TLC

VARIABLES
    \* ---- the analyser instance (fields of TypeScriptNextjsAnalyser) ----
    parser,       \* this.parser is set
    language,     \* this.language is set
    resources,    \* this.resources
    demands,      \* this.demands
    \* ---- analyse() invocations, one per caller ----
    pc,           \* position of each invocation: "idle", "awaiting", "done"
    sourceCode,   \* argument sourceCode of each invocation
    filePath,     \* argument filePath of each invocation
    codeFile,     \* what structurer.parseFile resolved to
    result,       \* the list the invocation resolved to
    outcome,      \* "none", "returned" or "threw"
    exit,         \* the return statement the invocation left through
    demandsAtEntry, \* Len(this.demands) when the invocation began
    readyAtEntry, \* whether parser and language were set when it began
    nCalls,       \* invocations started so far
    \* ---- extractApiUrlFromFilePath applied on its own ----
    pathIn, stage, derived, prefix, rederived,
    \* ---- findApiClientUsages, one capture per step ----
    captures,          \* what restClientQuery.captures(rootNode) returned
    idx,               \* the capture the loop is at
    currentFunction,   \* the parameter currentFunction
    currentInvocation, \* the local accumulator
    scanState,         \* "idle", "scanning", "done" or "threw"
    lastCapture,       \* the capture the last iteration processed
    lastInvocation,    \* the accumulator before that iteration
    emitted,           \* whether that iteration pushed a Demand
    \* ---- extractSupportedHttpMethods applied on its own ----
    methodCaptures,    \* what httpMethodQuery.captures(rootNode) returned
    returnedMethods,   \* the list it returned
    methodStage,       \* "idle", "input" or "done"
    \* ---- PromptBuilder.buildMessagesForRound ----
    round,               \* the parameter round
    conversationHistory, \* the parameter conversationHistory
    messages,            \* the local list messages, returned at the end
    promptStage          \* "idle", "input", "awaiting" or "done"

analyserVars == <<parser, language, resources, demands>>
callVars == <<pc, sourceCode, filePath, codeFile, result, outcome, exit,
              demandsAtEntry, readyAtEntry, nCalls>>
pathVars == <<pathIn, stage, derived, prefix, rederived>>
scanVars == <<captures, idx, currentFunction, currentInvocation, scanState,
              lastCapture, lastInvocation, emitted>>
methodVars == <<methodCaptures, returnedMethods, methodStage>>
promptVars == <<round, conversationHistory, messages, promptStage>>
vars ==
    <<analyserVars, callVars, pathVars, scanVars, methodVars, promptVars>>

----------------------------------------------------------------------------
(* JavaScript string primitives over character sequences.                  *)

Lower == <<"a","b","c","d","e","f","g","h","i","j","k","l","m",
           "n","o","p","q","r","s","t","u","v","w","x","y","z">>
Upper == <<"A","B","C","D","E","F","G","H","I","J","K","L","M",
           "N","O","P","Q","R","S","T","U","V","W","X","Y","Z">>

toUpperChar(c) ==
    IF \E i \in DOMAIN Lower : Lower[i] = c
    THEN Upper[CHOOSE i \in DOMAIN Lower : Lower[i] = c]
    ELSE c

toLowerChar(c) ==
    IF \E i \in DOMAIN Upper : Upper[i] = c
    THEN Lower[CHOOSE i \in DOMAIN Upper : Upper[i] = c]
    ELSE c

toUpperCase(s) == [i \in DOMAIN s |-> toUpperChar(s[i])]

toLowerCase(s) == [i \in DOMAIN s |-> toLowerChar(s[i])]

\* s.substring(from, to), 0-based, to exclusive
substring(s, from, to) == SubSeq(s, from + 1, to)

\* s.indexOf(pat): 0-based position of the first occurrence, -1 if none
indexOf(s, pat) ==
    LET hits == {i \in 0..(Len(s) - Len(pat)) :
                    substring(s, i, i + Len(pat)) = pat}
    IN  IF hits = {} THEN -1
        ELSE CHOOSE i \in hits : \A j \in hits : i <= j

includes(s, pat) == indexOf(s, pat) # -1

endsWith(s, pat) ==
    /\ Len(pat) <= Len(s)
    /\ substring(s, Len(s) - Len(pat), Len(s)) = pat

\* s.lastIndexOf(c) for a single character, -1 if none
lastIndexOfChar(s, c) ==
    LET hits == {i \in 0..(Len(s) - 1) : s[i + 1] = c}
    IN  IF hits = {} THEN -1
        ELSE CHOOSE i \in hits : \A j \in hits : j <= i

\* path.basename / path.dirname / path.extname (posix) on paths without a
\* trailing or doubled slash
basename(p) == substring(p, lastIndexOfChar(p, "/") + 1, Len(p))

dirname(p) ==
    LET k == lastIndexOfChar(p, "/")
    IN  IF k = -1 THEN <<".">>
        ELSE IF k = 0 THEN <<"/">>
        ELSE substring(p, 0, k)

extname(p) ==
    LET base == basename(p)
        dot  == lastIndexOfChar(base, ".")
    IN  IF dot <= 0 \/ base = <<".", ".">> THEN <<>>
        ELSE substring(base, dot, Len(base))

----------------------------------------------------------------------------
(* String literals of the source, spelled out.                             *)

sPagesApi == <<"/","p","a","g","e","s","/","a","p","i","/">>
sAppApi   == <<"/","a","p","p","/","a","p","i","/">>
sApi      == <<"/","a","p","i","/">>
sIndex    == <<"/","i","n","d","e","x">>
sRoute    == <<"/","r","o","u","t","e">>
sRouteTs  == <<"r","o","u","t","e",".","t","s">>
sRouteJs  == <<"r","o","u","t","e",".","j","s">>
sGET      == <<"G","E","T">>
sPOST     == <<"P","O","S","T">>
sPUT      == <<"P","U","T">>
sDELETE   == <<"D","E","L","E","T","E">>
sPATCH    == <<"P","A","T","C","H">>
sHEAD     == <<"H","E","A","D">>
sOPTIONS  == <<"O","P","T","I","O","N","S">>
sHandler  == <<"h","a","n","d","l","e","r">>
sMethod   == <<"m","e","t","h","o","d">>
sNextjs   == <<"N","e","x","t","j","s">>

----------------------------------------------------------------------------
(* Route classifier and path deriver.                                      *)

\* mutant: any "/api/" segment counts as an API directory
isNextApiRouteAnyApi(p) == includes(p, sApi)

isNextApiRoute(p) == includes(p, sPagesApi) \/ includes(p, sAppApi)

\* mutant: the extension is taken to be three characters long
stripExtensionFixed(p) ==
    LET apiPath == substring(p, indexOf(p, sApi), Len(p))
    IN  substring(apiPath, 0, Len(apiPath) - 3)

\* lines 133-140: the part from the first "/api/" on, extension removed
\* (defined for paths that have an "/api/" segment)
stripExtension(p) ==
    LET apiPath == substring(p, indexOf(p, sApi), Len(p))
    IN  substring(apiPath, 0, Len(apiPath) - Len(extname(apiPath)))

\* lines 143-145
dropIndex(apiPath) ==
    IF endsWith(apiPath, sIndex)
    THEN substring(apiPath, 0, Len(apiPath) - 6)
    ELSE apiPath

\* lines 148-150
dropRoute(apiPath) ==
    IF endsWith(apiPath, sRoute)
    THEN substring(apiPath, 0, Len(apiPath) - 6)
    ELSE apiPath

\* mutant: the URL path is cut at "/pages/api/" only
extractApiUrlFromPagesPath(p) ==
    IF indexOf(p, sPagesApi) = -1 THEN <<>>
    ELSE dropRoute(dropIndex(stripExtension(p)))

extractApiUrlFromFilePath(p) ==
    IF indexOf(p, sApi) = -1 THEN <<>>
    ELSE dropRoute(dropIndex(stripExtension(p)))

----------------------------------------------------------------------------
(* The syntax tree, as far as the three queries see it: the function       *)
(* declarations of the file, each with the method conditionals directly in *)
(* its body and the call sites object.property("literal", ...) in it.      *)
(*   function: [name, exported, ifs, calls]                                *)
(*   if:       [object, property, literal]   if (object.property == lit)   *)
(*   call:     [client, method, url, otherArgs]                            *)
(* A capture is [name, text, startIndex].                                  *)

Capture(n, t, i) == [name |-> n, text |-> t, startIndex |-> i]

RECURSIVE Flatten(_)
Flatten(seqs) ==
    IF seqs = <<>> THEN <<>> ELSE Head(seqs) \o Flatten(Tail(seqs))

\* captures in document order get increasing start positions
Positioned(caps) ==
    [i \in DOMAIN caps |-> Capture(caps[i].name, caps[i].text, i)]

exportedFunctions(rootNode) == SelectSeq(rootNode, LAMBDA f : f.exported)

\* appRouterApiQuery (lines 52-58): the name of every exported function
appRouterApiQuery(rootNode) ==
    LET fs == exportedFunctions(rootNode)
    IN  Positioned([i \in DOMAIN fs |-> Capture("http-method", fs[i].name, 0)])

\* httpMethodQuery (lines 30-49): per exported function its name and, for
\* each conditional in its body, the object, the property and the literal
httpMethodQuery(rootNode) ==
    LET fs == exportedFunctions(rootNode)
        ifCaps(f, c) == << Capture("functionName", f.name, 0),
                           Capture("req", c.object, 0),
                           Capture("method", c.property, 0),
                           Capture("httpMethod", c.literal, 0) >>
        fnCaps(f) == IF f.ifs = <<>>
                     THEN << Capture("functionName", f.name, 0) >>
                     ELSE Flatten([j \in DOMAIN f.ifs |-> ifCaps(f, f.ifs[j])])
    IN  Positioned(Flatten([i \in DOMAIN fs |-> fnCaps(fs[i])]))

\* restClientQuery (lines 60-71): per call site, anywhere in the file, the
\* client object, the method, the string argument and the other arguments
restClientQuery(rootNode) ==
    LET callCaps(c) == << Capture("client", c.client, 0),
                          Capture("method", c.method, 0),
                          Capture("url", c.url, 0) >>
                       \o [k \in 1..c.otherArgs |-> Capture("otherArgs", <<"o">>, 0)]
        fnCaps(f) == Flatten([j \in DOMAIN f.calls |-> callCaps(f.calls[j])])
    IN  Positioned(Flatten([i \in DOMAIN rootNode |-> fnCaps(rootNode[i])]))

----------------------------------------------------------------------------
(* Client-call detector.                                                   *)

\* the double quote, the single quote and the backtick
Quotes == {"\"", "'", "backtick"}
LineTerminators == {"\n", "\r"}

\* text.replace(regex, '$1'): a quote, anything without a line terminator,
\* a quote, kept without the two quotes
cleanStringLiteral(text) ==
    IF /\ Len(text) >= 2
       /\ text[1] \in Quotes
       /\ text[Len(text)] \in Quotes
       /\ \A i \in 2..(Len(text) - 1) : text[i] \notin LineTerminators
    THEN SubSeq(text, 2, Len(text) - 1)
    ELSE text

EmptyInvocation == [clientName |-> <<>>, methodName |-> <<>>, urlArg |-> <<>>]

Undefined == [defined |-> FALSE, name |-> <<>>]
Function(n) == [defined |-> TRUE, name |-> n]

\* mutant: no ladder, the method name is upper-cased as it is
httpMethodOfAnyVerb(methodName) == toUpperCase(methodName)

\* mutant: a verb the ladder does not know is taken for GET
httpMethodOfDefaultGet(methodName) ==
    LET m == toLowerCase(methodName)
    IN  IF m = toLowerCase(sPOST) THEN sPOST
        ELSE IF m = toLowerCase(sDELETE) THEN sDELETE
        ELSE IF m = toLowerCase(sPUT) THEN sPUT
        ELSE IF m = toLowerCase(sPATCH) THEN sPATCH
        ELSE sGET

\* lines 303-309
httpMethodOf(methodName) ==
    LET m == toLowerCase(methodName)
    IN  IF m = toLowerCase(sGET) THEN sGET
        ELSE IF m = toLowerCase(sPOST) THEN sPOST
        ELSE IF m = toLowerCase(sDELETE) THEN sDELETE
        ELSE IF m = toLowerCase(sPUT) THEN sPUT
        ELSE IF m = toLowerCase(sPATCH) THEN sPATCH
        ELSE <<>>

Demand(caller, url, method) ==
    [sourceCaller |-> caller, targetUrl |-> url, targetHttpMethod |-> method]

\* One iteration of the loop of findApiClientUsages (lines 285-324) on the
\* scan state [inv, demands, threw].  Reading currentFunction.name of an
\* undefined currentFunction is a TypeError that ends the scan.
scanCapture(st, capture, fn) ==
    IF st.threw THEN st
    ELSE IF capture.name = "client"
    THEN [st EXCEPT !.inv.clientName = capture.text]
    ELSE IF capture.name = "method"
    THEN [st EXCEPT !.inv.methodName = capture.text]
    ELSE IF capture.name = "url"
    THEN LET inv == [st.inv EXCEPT !.urlArg = cleanStringLiteral(capture.text)]
             httpMethod == httpMethodOf(inv.methodName)
         IN  IF inv.clientName # <<>> /\ inv.methodName # <<>> /\ inv.urlArg # <<>>
             THEN IF httpMethod # <<>>
                  THEN IF fn.defined
                       THEN [inv |-> EmptyInvocation,
                             demands |-> Append(st.demands,
                                 Demand(fn.name, inv.urlArg, httpMethod)),
                             threw |-> FALSE]
                       ELSE [inv |-> inv, demands |-> st.demands, threw |-> TRUE]
                  ELSE [inv |-> EmptyInvocation, demands |-> st.demands,
                        threw |-> FALSE]
             ELSE [st EXCEPT !.inv = inv]
    ELSE st

RECURSIVE scanFrom(_, _, _, _)
scanFrom(st, caps, i, fn) ==
    IF i > Len(caps) THEN st
    ELSE scanFrom(scanCapture(st, caps[i], fn), caps, i + 1, fn)

\* findApiClientUsages(rootNode, currentFunction) on this.demands = ds:
\* [demands, threw]
findApiClientUsages(rootNode, fn, ds, lang) ==
    IF ~lang THEN [demands |-> ds, threw |-> FALSE]
    ELSE LET st == scanFrom([inv |-> EmptyInvocation, demands |-> ds,
                             threw |-> FALSE],
                            restClientQuery(rootNode), 1, fn)
         IN  [demands |-> st.demands, threw |-> st.threw]

----------------------------------------------------------------------------
(* Method extractors and the two strategies.                               *)

Null == [isNull |-> TRUE, functions |-> <<>>]
CodeFile(names) == [isNull |-> FALSE, functions |-> names]

\* mutant: the first function of the code model, whatever its name
findFirst(functions, names) ==
    IF functions = <<>> THEN Undefined ELSE Function(functions[1])

\* codeFile.functions.find(f => f.name === one of names)
find(functions, names) ==
    LET hits == {i \in DOMAIN functions : functions[i] \in names}
    IN  IF hits = {} THEN Undefined
        ELSE Function(functions[CHOOSE i \in hits : \A j \in hits : i <= j])

Resource(apiUrl, method, path, handlerName) ==
    [id               |-> <<>>,
     sourceUrl        |-> apiUrl,
     sourceHttpMethod |-> method,
     packageName      |-> dirname(path),
     className        |-> basename(path),
     methodName       |-> handlerName,
     supplyType       |-> sNextjs]

RecognisedMethods == {sGET, sPOST, sPUT, sDELETE, sPATCH, sHEAD, sOPTIONS}
ResourceMethods == {sGET, sPOST, sPUT, sDELETE, sPATCH}
defaultMethods == <<sGET, sPOST, sPUT, sDELETE, sPATCH>>

extractAppRouterHttpMethods(rootNode, lang) ==
    IF ~lang THEN <<>>
    ELSE LET caps == appRouterApiQuery(rootNode)
             names == [i \in DOMAIN caps |-> toUpperCase(caps[i].text)]
         IN  SelectSeq(names, LAMBDA m : m \in RecognisedMethods)

\* the loop of analyseNextAppRouterApi (lines 159-176) from method i on, on
\* the state [resources, demands, threw]
RECURSIVE appRouterLoop(_, _, _, _, _, _, _, _)
appRouterLoop(st, httpMethods, i, cf, rootNode, apiUrl, path, lang) ==
    IF st.threw \/ i > Len(httpMethods) THEN st
    ELSE LET method == httpMethods[i]
         IN  IF method \notin ResourceMethods
             THEN appRouterLoop(st, httpMethods, i + 1, cf, rootNode, apiUrl,
                                path, lang)
             ELSE LET handlerFunction == find(cf.functions, {method})
                      found == findApiClientUsages(rootNode, handlerFunction,
                                                   st.demands, lang)
                      next == [resources |-> Append(st.resources,
                                   Resource(apiUrl, method, path, method)),
                               demands |-> found.demands,
                               threw |-> found.threw]
                  IN  appRouterLoop(next, httpMethods, i + 1, cf, rootNode,
                                    apiUrl, path, lang)

\* mutant: line 157 is missing, the strategy pushes onto the list it finds
analyseNextAppRouterApiNoReset(cf, rootNode, apiUrl, path, rs, ds, lang) ==
    IF ~lang
    THEN [resources |-> rs, demands |-> ds, threw |-> FALSE, result |-> <<>>]
    ELSE LET st == appRouterLoop(
                       [resources |-> rs, demands |-> ds, threw |-> FALSE],
                       extractAppRouterHttpMethods(rootNode, lang), 1,
                       cf, rootNode, apiUrl, path, lang)
         IN  [resources |-> st.resources, demands |-> st.demands,
              threw |-> st.threw,
              result |-> IF st.threw THEN <<>> ELSE st.resources]

\* each strategy yields [resources, demands, threw, result]: the analyser's
\* two lists afterwards, whether it threw, and the list it returned
analyseNextAppRouterApi(cf, rootNode, apiUrl, path, rs, ds, lang) ==
    IF ~lang
    THEN [resources |-> rs, demands |-> ds, threw |-> FALSE, result |-> <<>>]
    ELSE LET st == appRouterLoop(
                       [resources |-> <<>>, demands |-> ds, threw |-> FALSE],
                       extractAppRouterHttpMethods(rootNode, lang), 1,
                       cf, rootNode, apiUrl, path, lang)
         IN  [resources |-> st.resources, demands |-> st.demands,
              threw |-> st.threw,
              result |-> IF st.threw THEN <<>> ELSE st.resources]

\* mutant: line 262 does not look for the method in the list
RECURSIVE supportedLoopNoDedup(_, _, _)
supportedLoopNoDedup(methods, caps, i) ==
    IF i > Len(caps) THEN methods
    ELSE LET capture == caps[i]
             later == {j \in DOMAIN caps :
                          /\ caps[j].name = "httpMethod"
                          /\ caps[j].startIndex > capture.startIndex}
             nextCapture == caps[CHOOSE j \in later : \A k \in later : j <= k]
             method == toUpperCase(SelectSeq(nextCapture.text,
                                             LAMBDA ch : ch \notin {"\"", "'"}))
         IN  IF /\ capture.name = "method"
                /\ capture.text = sMethod
                /\ later # {}
                /\ method # <<>>
             THEN supportedLoopNoDedup(Append(methods, method), caps, i + 1)
             ELSE supportedLoopNoDedup(methods, caps, i + 1)

\* lines 253-267, method capture i of the list on; methods is the list so far
RECURSIVE supportedLoop(_, _, _)
supportedLoop(methods, caps, i) ==
    IF i > Len(caps) THEN methods
    ELSE LET capture == caps[i]
             later == {j \in DOMAIN caps :
                          /\ caps[j].name = "httpMethod"
                          /\ caps[j].startIndex > capture.startIndex}
             nextCapture == caps[CHOOSE j \in later : \A k \in later : j <= k]
             method == toUpperCase(SelectSeq(nextCapture.text,
                                             LAMBDA ch : ch \notin {"\"", "'"}))
         IN  IF /\ capture.name = "method"
                /\ capture.text = sMethod
                /\ later # {}
                /\ method # <<>>
                /\ \A k \in DOMAIN methods : methods[k] # method
             THEN supportedLoop(Append(methods, method), caps, i + 1)
             ELSE supportedLoop(methods, caps, i + 1)

extractSupportedHttpMethods(rootNode, lang) ==
    IF ~lang THEN <<>>
    ELSE supportedLoop(<<>>, httpMethodQuery(rootNode), 1)

HandlerNames == {sHandler, sGET, sPOST, sPUT, sDELETE, sPATCH}

analyseNextApiRoute(cf, rootNode, apiUrl, path, rs, ds, lang) ==
    IF ~lang
    THEN [resources |-> rs, demands |-> ds, threw |-> FALSE, result |-> <<>>]
    ELSE LET handlerFunction == find(cf.functions, HandlerNames)
             supportedMethods == extractSupportedHttpMethods(rootNode, lang)
             \* handlerFunction[0] is undefined, so the explicit branch
             \* always names the resource 'handler'
             explicit == [i \in DOMAIN supportedMethods |->
                            Resource(apiUrl, supportedMethods[i], path, sHandler)]
             fallback == [i \in DOMAIN defaultMethods |->
                            Resource(apiUrl, defaultMethods[i], path,
                                IF handlerFunction.name # <<>>
                                THEN handlerFunction.name ELSE sHandler)]
             rs2 == IF Len(supportedMethods) > 0 THEN explicit ELSE fallback
             found == findApiClientUsages(rootNode, handlerFunction, ds, lang)
         IN  IF ~handlerFunction.defined
             THEN [resources |-> <<>>, demands |-> ds, threw |-> FALSE,
                   result |-> <<>>]
             ELSE [resources |-> rs2, demands |-> found.demands,
                   threw |-> found.threw,
                   result |-> IF found.threw THEN <<>> ELSE rs2]

----------------------------------------------------------------------------
(* Inputs: file paths and source files.                                    *)

dW        == <<"/","w">>
dApp      == <<"/","a","p","p">>
dPages    == <<"/","p","a","g","e","s">>
dApi      == <<"/","a","p","i">>
dSrc      == <<"/","s","r","c">>
dUsers    == <<"/","u","s","e","r","s">>
dV10      == <<"/","v","1",".","0">>
fRouteTs  == <<"/">> \o sRouteTs
fRouteJs  == <<"/">> \o sRouteJs
fRouteTsx == fRouteTs \o <<"x">>
fSubroute == <<"/","s","u","b">> \o sRouteTs
fIndexTs  == sIndex \o <<".","t","s">>
fUsersTs  == dUsers \o <<".","t","s">>

\* the paths analyse is called with
FilePaths ==
    { dW \o dApp \o dApi \o dUsers \o fRouteTs,
      dW \o dApp \o dApi \o dUsers \o fRouteJs,
      dW \o dApp \o dApi \o dUsers \o fSubroute,
      dW \o dApp \o dApi \o fUsersTs,
      dW \o dPages \o dApi \o dUsers \o fRouteTs,
      dW \o dPages \o dApi \o dUsers \o fIndexTs,
      dW \o dPages \o dApi \o fUsersTs,
      dW \o dPages \o dApi \o dApp \o dApi \o fRouteTs,
      dW \o dSrc \o dApi \o fRouteTs,
      dW \o dSrc \o fRouteTs,
      dW \o dSrc \o fUsersTs }

nApi == <<"a","p","i">>
nReq == <<"r","e","q">>
nUrl == <<"u","r","l">>
nHelper == <<"h","e","l","p","e","r">>
nUtil == <<"u","t","i","l">>
nUnknownVerb == <<"u","n","k","n","o","w","n","V","e","r","b">>

\* a string literal of the source text: content between two quote characters
Literal(q, content) == <<q>> \o content \o <<q>>

Fn(n, e, i, c) == [name |-> n, exported |-> e, ifs |-> i, calls |-> c]
If(o, p, l) == [object |-> o, property |-> p, literal |-> l]
Call(c, m, u, k) == [client |-> c, method |-> m, url |-> u, otherArgs |-> k]

\* api.get("/u/1", opts)
callGet == Call(nApi, toLowerCase(sGET), Literal("\"", <<"/","u","/","1">>), 1)
\* api.Post('/x')
callPost == Call(nApi, <<"P","o","s","t">>, Literal("'", <<"/","x">>), 0)
\* api.unknownVerb("/x")
callUnknownVerb == Call(nApi, nUnknownVerb, Literal("\"", <<"/","x">>), 0)
\* api.put("")
callEmptyUrl == Call(nApi, toLowerCase(sPUT), Literal("\"", <<>>), 0)

Source(fs) == [empty |-> FALSE, functions |-> fs]
EmptySource == [empty |-> TRUE, functions |-> <<>>]

SourceFiles ==
    { EmptySource,
      \* export function GET(){}  export function POST(){}
      Source(<< Fn(sGET, TRUE, <<>>, <<>>), Fn(sPOST, TRUE, <<>>, <<>>) >>),
      \* export function GET(){ api.get("/u/1", opts) }
      Source(<< Fn(sGET, TRUE, <<>>, <<callGet>>) >>),
      \* export function GET(){ api.get("/u/1", opts) }  export function POST(){}
      Source(<< Fn(sGET, TRUE, <<>>, <<callGet>>), Fn(sPOST, TRUE, <<>>, <<>>) >>),
      \* export function get(){ api.Post('/x') }
      Source(<< Fn(toLowerCase(sGET), TRUE, <<>>, <<callPost>>) >>),
      \* export function GET(){}  export function get(){}
      Source(<< Fn(sGET, TRUE, <<>>, <<>>),
                Fn(toLowerCase(sGET), TRUE, <<>>, <<>>) >>),
      \* export function OPTIONS(){}  HEAD(){}  DELETE(){}
      Source(<< Fn(sOPTIONS, TRUE, <<>>, <<>>), Fn(sHEAD, TRUE, <<>>, <<>>),
                Fn(sDELETE, TRUE, <<>>, <<>>) >>),
      \* export function handler(){}
      Source(<< Fn(sHandler, TRUE, <<>>, <<>>) >>),
      \* export function handler(){ api.get("/u/1", opts) }
      Source(<< Fn(sHandler, TRUE, <<>>, <<callGet>>) >>),
      \* export function handler(req){ if (req.method === 'POST') ..
      \*   if (req.method === "post") .. if (req.method === 'GET') ..
      \*   api.get("/u/1", opts) }
      Source(<< Fn(sHandler, TRUE,
                   << If(nReq, sMethod, Literal("'", sPOST)),
                      If(nReq, sMethod, Literal("\"", toLowerCase(sPOST))),
                      If(nReq, sMethod, Literal("'", sGET)) >>,
                   <<callGet>>) >>),
      \* export function handler(){ api.unknownVerb("/x"); api.put("") }
      Source(<< Fn(sHandler, TRUE, <<>>, <<callUnknownVerb, callEmptyUrl>>) >>),
      \* function helper(){ api.get("/u/1", opts) }
      \* export function util(req){ if (req.method === 'GET') .. }
      Source(<< Fn(nHelper, FALSE, <<>>, <<callGet>>),
                Fn(nUtil, TRUE, <<If(nReq, sMethod, Literal("'", sGET))>>, <<>>) >>),
      \* export function GET(){}
      \* export function handler(req){ if (req.url === 'x') .. }
      Source(<< Fn(sGET, TRUE, <<>>, <<>>),
                Fn(sHandler, TRUE, <<If(nReq, nUrl, Literal("'", <<"x">>))>>, <<>>) >>),
      \* export function POST(req){ if (req.method === 'POST') ..
      \*   api.Post('/x') }
      Source(<< Fn(sPOST, TRUE, <<If(nReq, sMethod, Literal("'", sPOST))>>,
                   <<callPost>>) >>) }

\* this.parser.parse(sourceCode).rootNode
parse(src) == src.functions

functionNames(src) == [i \in DOMAIN src.functions |-> src.functions[i].name]

\* what structurer.parseFile may resolve to for a source: nothing, the
\* functions of the file, or a model that lists no function
CodeFilesFor(src) == {Null, CodeFile(functionNames(src)), CodeFile(<<>>)}

----------------------------------------------------------------------------
(* The analyser: init and analyse.                                         *)

Calls == {1, 2}
MaxCalls == 2

InitAnalyser ==
    /\ parser = FALSE
    /\ language = FALSE
    /\ resources = <<>>
    /\ demands = <<>>

InitCalls ==
    /\ pc = [c \in Calls |-> "idle"]
    /\ sourceCode = [c \in Calls |-> EmptySource]
    /\ filePath = [c \in Calls |-> <<>>]
    /\ codeFile = [c \in Calls |-> Null]
    /\ result = [c \in Calls |-> <<>>]
    /\ outcome = [c \in Calls |-> "none"]
    /\ exit = [c \in Calls |-> "none"]
    /\ demandsAtEntry = [c \in Calls |-> 0]
    /\ readyAtEntry = [c \in Calls |-> FALSE]
    /\ nCalls = 0

\* the guards of analyse: lines 88, 93, 104 and 109
notInitialized(lang, prs) == ~lang \/ ~prs

noSourceCode(src) == src.empty

\* mutant: the missing code model goes unnoticed
noCodeFileIgnored(cf) == FALSE

noCodeFile(cf) == cf.isNull

notRouteFile(p) == ~endsWith(p, sRouteTs) /\ ~endsWith(p, sRouteJs)

\* mutant: a path under "/pages/api/" is never taken for an app-router one
isAppRouterUnlessPages(p) == includes(p, sAppApi) /\ ~includes(p, sPagesApi)

\* the dispatch of analyse, line 117
isAppRouter(p) == includes(p, sAppApi)

\* init(langService), lines 78-85
init ==
    /\ ~language
    /\ parser' = TRUE
    /\ language' = TRUE
    /\ UNCHANGED <<resources, demands, callVars, pathVars, scanVars, methodVars,
                   promptVars>>

\* invocation c returns list r through the return statement named e
Finish(c, r, o, e) ==
    /\ pc' = [pc EXCEPT ![c] = "done"]
    /\ result' = [result EXCEPT ![c] = r]
    /\ outcome' = [outcome EXCEPT ![c] = o]
    /\ exit' = [exit EXCEPT ![c] = e]

\* analyse(sourceCode, filePath, workspacePath) up to the awaited
\* structurer.parseFile, lines 87-103
AnalyseBegin(c, src, p) ==
    /\ pc[c] = "idle"
    /\ nCalls < MaxCalls
    /\ nCalls' = nCalls + 1
    /\ sourceCode' = [sourceCode EXCEPT ![c] = src]
    /\ filePath' = [filePath EXCEPT ![c] = p]
    /\ codeFile' = [codeFile EXCEPT ![c] = Null]
    /\ demandsAtEntry' = [demandsAtEntry EXCEPT ![c] = Len(demands)]
    /\ readyAtEntry' = [readyAtEntry EXCEPT ![c] = language /\ parser]
    /\ IF notInitialized(language, parser)
       THEN Finish(c, <<>>, "returned", "notInitialized")
       ELSE IF noSourceCode(src) THEN Finish(c, <<>>, "returned", "noSourceCode")
       ELSE IF ~isNextApiRoute(p) THEN Finish(c, <<>>, "returned", "notApiRoute")
       ELSE /\ pc' = [pc EXCEPT ![c] = "awaiting"]
            /\ UNCHANGED <<result, outcome, exit>>
    /\ UNCHANGED <<analyserVars, pathVars, scanVars, methodVars,
                   promptVars>>

\* analyse from the resolution of structurer.parseFile on, lines 104-122
AnalyseResume(c, cf) ==
    /\ pc[c] = "awaiting"
    /\ codeFile' = [codeFile EXCEPT ![c] = cf]
    /\ LET p == filePath[c]
           rootNode == parse(sourceCode[c])
           apiUrl == extractApiUrlFromFilePath(p)
           run == IF isAppRouter(p)
                  THEN analyseNextAppRouterApi(cf, rootNode, apiUrl, p,
                                               resources, demands, language)
                  ELSE analyseNextApiRoute(cf, rootNode, apiUrl, p,
                                           resources, demands, language)
       IN  IF noCodeFile(cf)
           THEN /\ Finish(c, <<>>, "returned", "noCodeFile")
                /\ UNCHANGED <<resources, demands>>
           ELSE IF notRouteFile(p)
           THEN /\ Finish(c, <<>>, "returned", "notRouteFile")
                /\ UNCHANGED <<resources, demands>>
           ELSE /\ resources' = run.resources
                /\ demands' = run.demands
                /\ Finish(c, run.result,
                          IF run.threw THEN "threw" ELSE "returned",
                          IF isAppRouter(p) THEN "appRouter"
                                            ELSE "pagesRouter")
    /\ UNCHANGED <<parser, language, sourceCode, filePath, demandsAtEntry,
                   readyAtEntry, nCalls, pathVars, scanVars, methodVars,
                   promptVars>>

\* the caller takes the outcome; the invocation record is free again
Return(c) ==
    /\ pc[c] = "done"
    /\ pc' = [pc EXCEPT ![c] = "idle"]
    /\ sourceCode' = [sourceCode EXCEPT ![c] = EmptySource]
    /\ filePath' = [filePath EXCEPT ![c] = <<>>]
    /\ codeFile' = [codeFile EXCEPT ![c] = Null]
    /\ result' = [result EXCEPT ![c] = <<>>]
    /\ outcome' = [outcome EXCEPT ![c] = "none"]
    /\ exit' = [exit EXCEPT ![c] = "none"]
    /\ demandsAtEntry' = [demandsAtEntry EXCEPT ![c] = 0]
    /\ readyAtEntry' = [readyAtEntry EXCEPT ![c] = FALSE]
    /\ UNCHANGED <<analyserVars, nCalls, pathVars, scanVars, methodVars,
                   promptVars>>

InitPathIdle ==
    /\ pathIn = <<>>
    /\ stage = "idle"
    /\ derived = <<>>
    /\ prefix = <<>>
    /\ rederived = <<>>

InitScanIdle ==
    /\ captures = <<>>
    /\ idx = 1
    /\ currentFunction = Undefined
    /\ currentInvocation = EmptyInvocation
    /\ scanState = "idle"
    /\ lastCapture = Capture("none", <<>>, 0)
    /\ lastInvocation = EmptyInvocation
    /\ emitted = FALSE

InitPromptIdle ==
    /\ round = 1
    /\ conversationHistory = <<>>
    /\ messages = <<>>
    /\ promptStage = "idle"

InitMethodsIdle ==
    /\ methodCaptures = <<>>
    /\ returnedMethods = <<>>
    /\ methodStage = "idle"

\* one caller: the analyses of an analyser instance one after the other
Init ==
    /\ InitAnalyser /\ InitCalls /\ InitPathIdle /\ InitScanIdle
    /\ InitMethodsIdle /\ InitPromptIdle

Next ==
    \/ init
    \/ \E src \in SourceFiles, p \in FilePaths : AnalyseBegin(1, src, p)
    \/ \E cf \in CodeFilesFor(sourceCode[1]) : AnalyseResume(1, cf)
    \/ Return(1)

Spec == Init /\ [][Next]_vars

----------------------------------------------------------------------------
(* extractApiUrlFromFilePath on its own: a path is derived, and the        *)
(* derived path, behind some directory prefix, is derived again.           *)

fIndexDTs == sIndex \o <<".","d",".","t","s">>

PathInputs ==
    { pre \o dir \o mid \o file :
        pre \in {<<>>, dW},
        dir \in {dApp \o dApi, dPages \o dApi, dApi, dSrc},
        mid \in {<<>>, dUsers, sIndex, sRoute, dV10},
        file \in {fRouteTs, fRouteJs, fRouteTsx, fSubroute, fIndexTs,
                  fIndexDTs, fUsersTs, dUsers} }

Prefixes == {<<>>, dW \o dApp, dW \o dApi}

InitPath ==
    /\ pathIn \in PathInputs
    /\ stage = "input"
    /\ derived = <<>>
    /\ prefix = <<>>
    /\ rederived = <<>>

Derive ==
    /\ stage = "input"
    /\ derived' = extractApiUrlFromFilePath(pathIn)
    /\ stage' = "derived"
    /\ UNCHANGED <<pathIn, prefix, rederived, analyserVars, callVars, scanVars, methodVars,
                   promptVars>>

Rederive(pre) ==
    /\ stage = "derived"
    /\ prefix' = pre
    /\ rederived' = extractApiUrlFromFilePath(pre \o derived)
    /\ stage' = "rederived"
    /\ UNCHANGED <<pathIn, derived, analyserVars, callVars, scanVars, methodVars,
                   promptVars>>

NextPath ==
    \/ Derive
    \/ \E pre \in Prefixes : Rederive(pre)

InitPathSpec ==
    /\ InitAnalyser /\ InitCalls /\ InitPath /\ InitScanIdle
    /\ InitMethodsIdle /\ InitPromptIdle

SpecPath == InitPathSpec /\ [][NextPath]_vars

----------------------------------------------------------------------------
(* findApiClientUsages on its own, one loop iteration per step, on any     *)
(* sequence of captures.                                                   *)

MaxCaptures == 3

CaptureAlphabet ==
    { Capture("client", nApi, 0),
      Capture("method", toLowerCase(sGET), 0),
      Capture("method", <<"P","o","s","t">>, 0),
      Capture("method", nUnknownVerb, 0),
      Capture("url", Literal("\"", <<"/","x">>), 0),
      Capture("url", Literal("'", <<"/","u">>), 0),
      Capture("url", Literal("\"", <<>>), 0),
      Capture("otherArgs", <<"o">>, 0) }

CaptureStreams ==
    UNION { [1..n -> CaptureAlphabet] : n \in 0..MaxCaptures }

InitScan ==
    /\ captures \in CaptureStreams
    /\ currentFunction \in {Function(sHandler), Undefined}
    /\ idx = 1
    /\ currentInvocation = EmptyInvocation
    /\ scanState = "scanning"
    /\ lastCapture = Capture("none", <<>>, 0)
    /\ lastInvocation = EmptyInvocation
    /\ emitted = FALSE

\* one iteration of the for loop, lines 285-324
ScanCapture ==
    /\ scanState = "scanning"
    /\ idx <= Len(captures)
    /\ LET st == scanCapture([inv |-> currentInvocation, demands |-> demands,
                              threw |-> FALSE],
                             captures[idx], currentFunction)
       IN  /\ currentInvocation' = st.inv
           /\ demands' = st.demands
           /\ scanState' = IF st.threw THEN "threw" ELSE "scanning"
    /\ idx' = idx + 1
    /\ lastCapture' = captures[idx]
    /\ lastInvocation' = currentInvocation
    /\ emitted' = (demands' # demands)
    /\ UNCHANGED <<captures, currentFunction, parser, language, resources,
                   callVars, pathVars, methodVars,
                   promptVars>>

\* the loop is over, line 325
ScanEnd ==
    /\ scanState = "scanning"
    /\ idx > Len(captures)
    /\ scanState' = "done"
    /\ UNCHANGED <<captures, idx, currentFunction, currentInvocation,
                   lastCapture, lastInvocation, emitted, analyserVars,
                   callVars, pathVars, methodVars,
                   promptVars>>

NextClient == ScanCapture \/ ScanEnd

\* an initialised analyser that has emitted nothing yet
InitReady ==
    /\ parser = TRUE
    /\ language = TRUE
    /\ resources = <<>>
    /\ demands = <<>>

InitClient ==
    /\ InitReady /\ InitCalls /\ InitPathIdle /\ InitScan
    /\ InitMethodsIdle /\ InitPromptIdle

SpecClient == InitClient /\ [][NextClient]_vars

----------------------------------------------------------------------------
(* extractSupportedHttpMethods on its own, on any sequence of captures of  *)
(* httpMethodQuery.                                                        *)

MaxMethodCaptures == 4

MethodCaptureAlphabet ==
    { Capture("functionName", sHandler, 0),
      Capture("method", sMethod, 0),
      Capture("method", nUrl, 0),
      Capture("httpMethod", Literal("'", sGET), 0),
      Capture("httpMethod", Literal("\"", toLowerCase(sGET)), 0),
      Capture("httpMethod", Literal("'", sPOST), 0),
      Capture("httpMethod", Literal("'", <<>>), 0) }

\* the captures come in document order
MethodCaptureStreams ==
    { Positioned(s) :
        s \in UNION { [1..n -> MethodCaptureAlphabet] :
                          n \in 0..MaxMethodCaptures } }

InitMethods ==
    /\ methodCaptures \in MethodCaptureStreams
    /\ returnedMethods = <<>>
    /\ methodStage = "input"

\* lines 247-269 on an initialised analyser
ExtractMethods ==
    /\ methodStage = "input"
    /\ returnedMethods' = supportedLoop(<<>>, methodCaptures, 1)
    /\ methodStage' = "done"
    /\ UNCHANGED <<methodCaptures, analyserVars, callVars, pathVars, scanVars,
                   promptVars>>

NextMethods == ExtractMethods

InitMethodsSpec ==
    /\ InitReady /\ InitCalls /\ InitPathIdle /\ InitScanIdle
    /\ InitMethods /\ InitPromptIdle

SpecMethods == InitMethodsSpec /\ [][NextMethods]_vars

----------------------------------------------------------------------------
(* Two callers of one analyser instance: an invocation suspended at the    *)
(* awaited structurer.parseFile (line 103) lets the other one run.         *)

ConcurrentSources ==
    { \* export function GET(){ api.get("/u/1", opts) }  export function POST(){}
      Source(<< Fn(sGET, TRUE, <<>>, <<callGet>>), Fn(sPOST, TRUE, <<>>, <<>>) >>),
      \* export function handler(){ api.get("/u/1", opts) }
      Source(<< Fn(sHandler, TRUE, <<>>, <<callGet>>) >>),
      \* export function POST(req){ if (req.method === 'POST') ..
      \*   api.Post('/x') }
      Source(<< Fn(sPOST, TRUE, <<If(nReq, sMethod, Literal("'", sPOST))>>,
                   <<callPost>>) >>) }

ConcurrentPaths ==
    { dW \o dApp \o dApi \o dUsers \o fRouteTs,
      dW \o dPages \o dApi \o dUsers \o fRouteTs,
      dW \o dPages \o dApi \o fUsersTs,
      dW \o dSrc \o fUsersTs }

NextConcurrent ==
    \/ init
    \/ \E c \in Calls, src \in ConcurrentSources, p \in ConcurrentPaths :
           AnalyseBegin(c, src, p)
    \/ \E c \in Calls :
           \E cf \in CodeFilesFor(sourceCode[c]) : AnalyseResume(c, cf)
    \/ \E c \in Calls : Return(c)

SpecConcurrent == Init /\ [][NextConcurrent]_vars

----------------------------------------------------------------------------
(* PromptBuilder.buildMessagesForRound: the messages of one round of the   *)
(* conversation.  A message is [role, content]; the two system prompts and *)
(* the user prompt are told apart by their kind and round.                 *)

MaxHistory == 12
MaxRound == 3

Message(r, c) == [role |-> r, content |-> c]

max(a, b) == IF a >= b THEN a ELSE b
min(a, b) == IF a <= b THEN a ELSE b

\* Array.prototype.slice(start): a negative start counts from the end
slice(s, start) ==
    LET from == IF start < 0 THEN max(Len(s) + start, 0)
                ELSE min(start, Len(s))
    IN  SubSeq(s, from + 1, Len(s))

\* the prompts of lines 330, 338 and 347
systemPrompt == [kind |-> "context", round |-> 1]
buildContinuationSystemPrompt(r) == [kind |-> "continuation", round |-> r]
buildUserPromptForRound(r) == [kind |-> "user", round |-> r]

\* mutant: the start of the window is not kept from going negative
historyLimitNoMax(n) == n - 10

\* line 343
historyLimit(n) == max(0, n - 10)

\* lines 343-353: the history window and the user message are pushed
withHistoryAndUser(msgs, history, r) ==
    Append(msgs \o slice(history, historyLimit(Len(history))),
           Message("user", buildUserPromptForRound(r)))

\* histories: n messages numbered in order, roles alternating after the
\* first one, which may also be a system message
Histories ==
    { [i \in 1..n |->
          Message(IF i = 1 THEN first
                  ELSE IF (i % 2 = 1) = (first = "user") THEN "user"
                  ELSE "assistant", i)] :
        n \in 0..MaxHistory, first \in {"user", "assistant", "system"} }

InitPrompt ==
    /\ round \in 1..MaxRound
    /\ conversationHistory \in Histories
    /\ messages = <<>>
    /\ promptStage = "input"

\* round 1, lines 326-330: up to the awaited context prompt
BuildBegin ==
    /\ promptStage = "input"
    /\ round = 1
    /\ promptStage' = "awaiting"
    /\ UNCHANGED <<round, conversationHistory, messages, analyserVars,
                   callVars, pathVars, scanVars, methodVars>>

\* round 1, lines 331-353: the context prompt has resolved
BuildResume ==
    /\ promptStage = "awaiting"
    /\ messages' = withHistoryAndUser(<<Message("system", systemPrompt)>>,
                                      conversationHistory, round)
    /\ promptStage' = "done"
    /\ UNCHANGED <<round, conversationHistory, analyserVars, callVars,
                   pathVars, scanVars, methodVars>>

\* any other round, lines 326-353 in one go
BuildContinuation ==
    /\ promptStage = "input"
    /\ round # 1
    /\ messages' = withHistoryAndUser(
                       <<Message("system", buildContinuationSystemPrompt(round))>>,
                       conversationHistory, round)
    /\ promptStage' = "done"
    /\ UNCHANGED <<round, conversationHistory, analyserVars, callVars,
                   pathVars, scanVars, methodVars>>

NextPrompt == BuildBegin \/ BuildResume \/ BuildContinuation

InitPromptSpec ==
    /\ InitAnalyser /\ InitCalls /\ InitPathIdle /\ InitScanIdle
    /\ InitMethodsIdle /\ InitPrompt

SpecPrompt == InitPromptSpec /\ [][NextPrompt]_vars

----------------------------------------------------------------------------
(* Properties of analyse (specification Spec).                             *)

Done(c) == pc[c] = "done"

\* the file was analysed: the analyser was ready, the source text is not
\* empty and the structurer returned a code model
Analysed(c) ==
    Done(c) /\ readyAtEntry[c] /\ ~sourceCode[c].empty /\ ~codeFile[c].isNull

UnderPagesApi(c) == includes(filePath[c], sPagesApi)
UnderAppApi(c) == includes(filePath[c], sAppApi)

methodsOf(rs) == [i \in DOMAIN rs |-> rs[i].sourceHttpMethod]

\* C1: for a file path that contains neither "/pages/api/" nor "/app/api/",
\* analyse returns an empty Resource list and raises no error, whatever the
\* source text and the code model
C1_NonApiPathYieldsNothing ==
    \A c \in Calls :
        (Done(c) /\ ~UnderPagesApi(c) /\ ~UnderAppApi(c))
            => (outcome[c] = "returned" /\ result[c] = <<>>)

\* an initialised analyser was given a non-empty source exporting functions
\* under a path outside both API directories
C1_Witness ==
    \E c \in Calls :
        /\ Done(c) /\ readyAtEntry[c]
        /\ ~UnderPagesApi(c) /\ ~UnderAppApi(c)
        /\ includes(filePath[c], sApi)
        /\ exportedFunctions(sourceCode[c].functions) # <<>>

\* an app-router file: under "/app/api/" and named route.ts or route.js
AppRouterFile(c) ==
    UnderAppApi(c) /\ basename(filePath[c]) \in {sRouteTs, sRouteJs}

\* the upper-cased names of the exported functions that are one of the five
\* methods, in the order of the declarations
exportedVerbs(src) ==
    LET fs == SelectSeq(src.functions, LAMBDA f : f.exported)
        names == [i \in DOMAIN fs |-> toUpperCase(fs[i].name)]
    IN  SelectSeq(names, LAMBDA m : m \in {sGET, sPOST, sPUT, sDELETE, sPATCH})

\* the list of Resources C2 describes for invocation c
appRouterListAsClaimed(c) ==
    LET verbs == exportedVerbs(sourceCode[c])
    IN  /\ methodsOf(result[c]) = verbs
        /\ \A i \in DOMAIN result[c] :
              /\ result[c][i].sourceUrl = extractApiUrlFromFilePath(filePath[c])
              /\ result[c][i].methodName = verbs[i]

\* C2: for an app-router file analyse returns a Resource list that has
\* exactly one entry per exported function whose upper-cased name is GET,
\* POST, PUT, DELETE or PATCH, all with the URL derived from the file path,
\* and no entry for any other exported name (HEAD and OPTIONS included)
C2_AppRouterOneResourcePerVerb ==
    \A c \in Calls :
        (Analysed(c) /\ AppRouterFile(c))
            => (outcome[c] = "returned" /\ appRouterListAsClaimed(c))

\* what remains of C2 on the calls that return: the returned list is the
\* one described
AppRouterListWhenReturned ==
    \A c \in Calls :
        (Analysed(c) /\ AppRouterFile(c) /\ outcome[c] = "returned")
            => appRouterListAsClaimed(c)

\* the tree has no conditional comparing a .method property
NoMethodConditional(src) ==
    \A i \in DOMAIN src.functions :
        \A j \in DOMAIN src.functions[i].ifs :
            src.functions[i].ifs[j].property # sMethod

\* C3: for a pages-router file whose code model has a function named
\* "handler" and whose tree has no method-comparison conditional, analyse
\* returns exactly five Resources, GET, POST, PUT, DELETE and PATCH, each with
\* handler name "handler"
C3_PagesFallbackFiveMethods ==
    \A c \in Calls :
        (/\ Analysed(c) /\ UnderPagesApi(c) /\ ~UnderAppApi(c)
         /\ \E i \in DOMAIN codeFile[c].functions :
               codeFile[c].functions[i] = sHandler
         /\ NoMethodConditional(sourceCode[c]))
            => /\ outcome[c] = "returned"
               /\ methodsOf(result[c]) = <<sGET, sPOST, sPUT, sDELETE, sPATCH>>
               /\ \A i \in DOMAIN result[c] : result[c][i].methodName = sHandler

\* the file has exactly one call site, a qualifying one, and it lies in an
\* exported function f
OneCallSiteIn(src, f) ==
    /\ f.exported
    /\ Len(f.calls) = 1
    /\ httpMethodOf(f.calls[1].method) # <<>>
    /\ Len(f.calls[1].url) > 2
    /\ \A i \in DOMAIN src.functions :
          src.functions[i] # f => src.functions[i].calls = <<>>

\* C5: when the analysed file has one qualifying call site inside a
\* recognised handler, that analyse call adds exactly one Demand, with the
\* handler's name, the unquoted literal and the upper-cased verb, however
\* many handlers the file exposes
C5_OneDemandPerCallSite ==
    \A c \in Calls :
        \A i \in DOMAIN sourceCode[c].functions :
            LET f == sourceCode[c].functions[i]
            IN  (/\ Done(c) /\ exit[c] \in {"appRouter", "pagesRouter"}
                 /\ result[c] # <<>>
                 /\ OneCallSiteIn(sourceCode[c], f)
                 /\ \E k \in DOMAIN result[c] :
                       result[c][k].methodName = f.name)
                    => /\ Len(demands) = demandsAtEntry[c] + 1
                       /\ demands[Len(demands)] =
                            Demand(f.name,
                                   SubSeq(f.calls[1].url, 2,
                                          Len(f.calls[1].url) - 1),
                                   toUpperCase(f.calls[1].method))

\* C8: analyse returns an empty list, without throwing, when the analyser
\* was never initialised, when the source text is empty, and when the
\* structurer returns no code model
C8_RecoverableConditionsYieldNothing ==
    \A c \in Calls :
        (Done(c) /\ (~readyAtEntry[c] \/ sourceCode[c].empty
                     \/ codeFile[c].isNull))
            => (outcome[c] = "returned" /\ result[c] = <<>>)

\* the structurer returned no code model for a route file under "/app/api/"
\* that exports handlers, given to an initialised analyser
C8_Witness ==
    \E c \in Calls :
        /\ Done(c) /\ readyAtEntry[c] /\ ~sourceCode[c].empty
        /\ AppRouterFile(c)
        /\ exportedVerbs(sourceCode[c]) # <<>>
        /\ exit[c] = "noCodeFile"

\* C9: no exception propagates out of analyse: whatever the source text,
\* the file path and the code model, the call resolves to a Resource list
C9_AnalyseNeverThrows ==
    \A c \in Calls : outcome[c] # "threw"

\* C10: a file under "/pages/api/" (and not under "/app/api/") whose code
\* model has a recognised handler gets the pages-router strategy and its
\* Resources whatever its base name is
C10_PagesRouterAnyFileName ==
    \A c \in Calls :
        (/\ Analysed(c) /\ UnderPagesApi(c) /\ ~UnderAppApi(c)
         /\ \E i \in DOMAIN codeFile[c].functions :
               codeFile[c].functions[i] \in
                   {sHandler, sGET, sPOST, sPUT, sDELETE, sPATCH})
            => (exit[c] = "pagesRouter" /\ result[c] # <<>>)

----------------------------------------------------------------------------
(* Properties of findApiClientUsages (specification SpecClient).           *)

\* C4: a Demand is emitted only at a url capture at which the accumulator's
\* client name, its method name and the unquoted literal are all non-empty
\* and the method name is, in any letter case, get, post, delete, put or
\* patch; it carries the upper-cased method and the literal without its two
\* quote characters
C4_DemandOnlyFromCompleteCall ==
    (scanState # "idle" /\ emitted)
        => LET text == lastCapture.text
               unquoted == SubSeq(text, 2, Len(text) - 1)
               verb == lastInvocation.methodName
           IN  /\ lastCapture.name = "url"
               /\ lastInvocation.clientName # <<>>
               /\ verb # <<>>
               /\ unquoted # <<>>
               /\ toLowerCase(verb) \in
                    {toLowerCase(sGET), toLowerCase(sPOST), toLowerCase(sDELETE),
                     toLowerCase(sPUT), toLowerCase(sPATCH)}
               /\ demands[Len(demands)] =
                    Demand(currentFunction.name, unquoted, toUpperCase(verb))

\* a url capture completed a call with a recognised verb and a Demand went out
C4_Witness ==
    /\ scanState # "idle"
    /\ emitted
    /\ lastCapture.name = "url"
    /\ Len(demands) > 0

----------------------------------------------------------------------------
(* Properties of extractApiUrlFromFilePath (specification SpecPath).       *)

\* C6 as stated, for d itself: whenever a path derives to a non-empty d,
\* deriving from d gives d again
C6_DerivationIdempotent ==
    (stage = "rederived" /\ derived # <<>> /\ prefix = <<>>)
        => rederived = derived

\* C6 amended: deriving again gives d when the first "/api/" of the path
\* is the one d starts with, d has no extension and d ends in neither
\* "/index" nor "/route"
C6_DerivationIdempotentOnCanonical ==
    (/\ stage = "rederived"
     /\ derived # <<>>
     /\ indexOf(prefix \o derived, sApi) = Len(prefix)
     /\ extname(derived) = <<>>
     /\ ~endsWith(derived, sIndex)
     /\ ~endsWith(derived, sRoute))
        => rederived = derived

\* ".../app/api/users/route.ts" gave "/api/users", and ".../app/api/users"
\* gave it again
C6_Witness ==
    /\ stage = "rederived"
    /\ endsWith(pathIn, dApp \o dApi \o dUsers \o fRouteTs)
    /\ derived = dApi \o dUsers
    /\ prefix = dW \o dApp
    /\ rederived = derived

\* C7: when the path, cut at its first "/api/" and without its extension,
\* ends in "/index", only those six characters are dropped: the "/route"
\* rule applies only when the "/index" rule did not
C7_OneSuffixRewrite ==
    (/\ stage = "derived"
     /\ includes(pathIn, sApi)
     /\ endsWith(stripExtension(pathIn), sIndex))
        => derived = substring(stripExtension(pathIn), 0,
                               Len(stripExtension(pathIn)) - 6)

\* C11: in the Resource list returned by an analyse call no two Resources
\* carry the same HTTP method
C11_OneResourcePerMethod ==
    \A c \in Calls :
        Done(c) =>
            \A i, j \in DOMAIN result[c] :
                i # j => result[c][i].sourceHttpMethod
                            # result[c][j].sourceHttpMethod

\* the records of this.demands that invocation c pushed
demandsOf(c) == SubSeq(demands, demandsAtEntry[c] + 1, Len(demands))

\* the return statements of analyse that run no strategy
EarlyExits ==
    {"notInitialized", "noSourceCode", "notApiRoute", "noCodeFile",
     "notRouteFile"}

\* C12: when an analyse call is over, the Demand list of the analyser holds
\* only the Demands that call pushed, and its Resource list only the
\* Resources that call pushed: none when the call ran no strategy
C12_ListsFreshPerCall ==
    \A c \in Calls :
        Done(c) =>
            /\ demands = demandsOf(c)
            /\ exit[c] \in EarlyExits => resources = <<>>

\* C14: the URL path derived from the file path of a call is empty exactly
\* when the file path has no "/api/" segment, a call whose derived path is
\* empty returns no Resource, and no Resource returned by analyse has an
\* empty URL path
C14_NoResourceWithEmptyUrl ==
    \A c \in Calls :
        Done(c) =>
            /\ (extractApiUrlFromFilePath(filePath[c]) = <<>>)
                   <=> ~includes(filePath[c], sApi)
            /\ (extractApiUrlFromFilePath(filePath[c]) = <<>>)
                   => (result[c] = <<>> /\ outcome[c] = "returned")
            /\ \A i \in DOMAIN result[c] : result[c][i].sourceUrl # <<>>

\* an initialised analyser was given a source with functions under
\* "/w/src/route.ts": the derived path is empty and nothing came back
C14_Witness ==
    \E c \in Calls :
        /\ Done(c) /\ readyAtEntry[c]
        /\ sourceCode[c].functions # <<>>
        /\ filePath[c] = dW \o dSrc \o fRouteTs
        /\ extractApiUrlFromFilePath(filePath[c]) = <<>>
        /\ result[c] = <<>>

\* the same equivalence on the path deriver alone (specification SpecPath)
C14_EmptyExactlyWithoutApi ==
    stage = "derived" => ((derived = <<>>) <=> ~includes(pathIn, sApi))

\* C15: in findApiClientUsages, once a url capture has been processed the
\* three fields of the accumulator are empty, whether a Demand was pushed,
\* the verb was not recognised, or a part was missing or empty
C15_AccumulatorEmptyAfterUrl ==
    lastCapture.name = "url" => currentInvocation = EmptyInvocation

\* a pages-router file that reaches its strategy
PagesRouterFile(c) ==
    /\ UnderPagesApi(c) /\ ~UnderAppApi(c)
    /\ (endsWith(filePath[c], sRouteTs) \/ endsWith(filePath[c], sRouteJs))

\* the first function of the code model with a handler name, if any
locatedHandler(c) ==
    LET fs == codeFile[c].functions
        hits == {i \in DOMAIN fs :
                    fs[i] \in {sHandler, sGET, sPOST, sPUT, sDELETE, sPATCH}}
    IN  IF hits = {} THEN <<>>
        ELSE fs[CHOOSE i \in hits : \A j \in hits : i <= j]

\* C17: for a pages-router file with a located handler, with explicit
\* methods or with the five default ones, every Resource carries the name
\* of the located handler and every Demand of the run has that name as its
\* sourceCaller
C17_PagesHandlerNameShared ==
    \A c \in Calls :
        (Analysed(c) /\ PagesRouterFile(c) /\ locatedHandler(c) # <<>>)
            => /\ outcome[c] = "returned"
               /\ \A i \in DOMAIN result[c] :
                      result[c][i].methodName = locatedHandler(c)
               /\ \A i \in DOMAIN demandsOf(c) :
                      demandsOf(c)[i].sourceCaller = locatedHandler(c)

\* the call got as far as the dispatch of line 118: none of the five
\* early returns applied
ReachesDispatch(c) ==
    /\ Analysed(c)
    /\ UnderPagesApi(c) \/ UnderAppApi(c)
    /\ endsWith(filePath[c], sRouteTs) \/ endsWith(filePath[c], sRouteJs)

\* what the two strategies make of the inputs of invocation c
asAppRouter(c) ==
    analyseNextAppRouterApi(codeFile[c], parse(sourceCode[c]),
                            extractApiUrlFromFilePath(filePath[c]),
                            filePath[c], <<>>, <<>>, TRUE)

asPagesRouter(c) ==
    analyseNextApiRoute(codeFile[c], parse(sourceCode[c]),
                        extractApiUrlFromFilePath(filePath[c]),
                        filePath[c], <<>>, <<>>, TRUE)

\* C18: a call that reaches the dispatch runs the app-router strategy when
\* its path contains "/app/api/", also when the path contains "/pages/api/"
\* as well, and the pages-router strategy otherwise; a call runs one
\* strategy or none
C18_DispatchOnAppApi ==
    \A c \in Calls :
        Done(c) =>
            /\ exit[c] = "appRouter" <=> (ReachesDispatch(c) /\ UnderAppApi(c))
            /\ exit[c] = "pagesRouter"
                   <=> (ReachesDispatch(c) /\ ~UnderAppApi(c))
            /\ exit[c] = "appRouter" => result[c] = asAppRouter(c).result
            /\ exit[c] = "pagesRouter" => result[c] = asPagesRouter(c).result

\* "/w/pages/api/app/api/route.ts" exporting GET and POST went to the
\* app-router strategy: two Resources, where the pages-router one gives five
C18_Witness ==
    \E c \in Calls :
        /\ Done(c) /\ exit[c] = "appRouter"
        /\ UnderPagesApi(c) /\ UnderAppApi(c)
        /\ Len(result[c]) = 2
        /\ Len(asPagesRouter(c).result) = 5

\* C19: for a path under "/app/api/" whose base name is not exactly
\* "route.ts" or "route.js" (such as "subroute.ts" or "users.ts") analyse
\* returns no Resource
C19_OnlyRouteFilesUnderAppApi ==
    \A c \in Calls :
        (/\ Done(c) /\ UnderAppApi(c)
         /\ basename(filePath[c]) \notin {sRouteTs, sRouteJs})
            => result[c] = <<>>

\* C20: for a pages-router file whose code model has no function named
\* handler, GET, POST, PUT, DELETE or PATCH, analyse returns an empty list
\* and pushes no Demand
C20_NoHandlerNothingEmitted ==
    \A c \in Calls :
        (/\ Done(c) /\ UnderPagesApi(c) /\ ~UnderAppApi(c)
         /\ locatedHandler(c) = <<>>)
            => /\ result[c] = <<>>
               /\ outcome[c] = "returned"
               /\ Len(demands) = demandsAtEntry[c]

\* the pages-router strategy ran on a file with a method test and a call
\* site, whose code model lists the functions helper and util only
C20_Witness ==
    \E c \in Calls :
        /\ Done(c) /\ exit[c] = "pagesRouter"
        /\ codeFile[c].functions = <<nHelper, nUtil>>
        /\ extractSupportedHttpMethods(parse(sourceCode[c]), TRUE) = <<sGET>>
        /\ restClientQuery(parse(sourceCode[c])) # <<>>
        /\ result[c] = <<>>
        /\ Len(demands) = demandsAtEntry[c]

\* C21: when an analyse call has returned, through an early return or from
\* a strategy, the Resource list the analyser stores, which analysis()
\* resolves to, has the contents of the list the call returned
C21_StoredListIsReturnedList ==
    \A c \in Calls :
        (Done(c) /\ outcome[c] = "returned") => resources = result[c]

\* C22: whatever captures the scans met, every Demand in the analyser's
\* list has a non-empty targetUrl and a targetHttpMethod among GET, POST,
\* PUT, DELETE and PATCH
C22_DemandsWellFormed ==
    \A i \in DOMAIN demands :
        /\ demands[i].targetUrl # <<>>
        /\ demands[i].targetHttpMethod \in {sGET, sPOST, sPUT, sDELETE, sPATCH}

\* a scan is over that met client api, method Post and the literal '/u':
\* one Demand, POST /u
C22_Witness ==
    /\ scanState = "done"
    /\ Len(captures) = 3
    /\ captures[2].text = <<"P","o","s","t">>
    /\ captures[3].text = Literal("'", <<"/","u">>)
    /\ demands = <<Demand(sHandler, <<"/","u">>, sPOST)>>

----------------------------------------------------------------------------
(* Properties of extractSupportedHttpMethods (specification SpecMethods).  *)

\* the text of a string literal without its quote characters, upper-cased
upperUnquoted(text) ==
    toUpperCase(SelectSeq(text, LAMBDA ch : ch # "\"" /\ ch # "'"))

\* the literal captures positioned after capture i
literalsAfter(i) ==
    {j \in DOMAIN methodCaptures :
        /\ methodCaptures[j].name = "httpMethod"
        /\ methodCaptures[j].startIndex > methodCaptures[i].startIndex}

\* capture i is a ".method" property that has a literal after it
MethodTest(i) ==
    /\ methodCaptures[i].name = "method"
    /\ methodCaptures[i].text = sMethod
    /\ literalsAfter(i) # {}

\* the method a ".method" test compares against: its nearest literal
testedMethod(i) ==
    upperUnquoted(methodCaptures[
        CHOOSE j \in literalsAfter(i) : \A k \in literalsAfter(i) : j <= k].text)

MethodTests == {i \in DOMAIN methodCaptures : MethodTest(i)}

\* the first test that compares against method m
firstTestOf(m) ==
    CHOOSE i \in MethodTests :
        /\ testedMethod(i) = m
        /\ \A k \in MethodTests : testedMethod(k) = m => i <= k

\* C16: the list extractSupportedHttpMethods returns has no duplicates, each
\* element is the upper-cased, quote-stripped text of a literal capture
\* positioned after a ".method" capture, every method tested (in whatever
\* letter case, however often) is in the list once, and the elements are in
\* the order of their first tests
C16_SupportedMethodsFirstOccurrence ==
    methodStage = "done" =>
        /\ \A a, b \in DOMAIN returnedMethods :
               a # b => returnedMethods[a] # returnedMethods[b]
        /\ \A a \in DOMAIN returnedMethods :
               \E i \in MethodTests, j \in DOMAIN methodCaptures :
                   /\ j \in literalsAfter(i)
                   /\ returnedMethods[a] = upperUnquoted(methodCaptures[j].text)
        /\ \A i \in MethodTests :
               testedMethod(i) # <<>> =>
                   \E a \in DOMAIN returnedMethods :
                       returnedMethods[a] = testedMethod(i)
        /\ \A a, b \in DOMAIN returnedMethods :
               a < b => firstTestOf(returnedMethods[a])
                           < firstTestOf(returnedMethods[b])

\* .method === 'GET', .method === "get": the method tested twice, in two
\* letter cases, is returned once
C16_Witness ==
    /\ methodStage = "done"
    /\ Len(methodCaptures) = 4
    /\ MethodTests = {1, 3}
    /\ methodCaptures[2].text = Literal("'", sGET)
    /\ methodCaptures[4].text = Literal("\"", toLowerCase(sGET))
    /\ returnedMethods = <<sGET>>

----------------------------------------------------------------------------
(* Properties of two interleaved invocations (specification                *)
(* SpecConcurrent).                                                        *)

\* what invocation c does on an analyser that runs nothing else and holds
\* no record yet: the list it returns, how it ends, the Demands it pushes
alone(c) ==
    LET p == filePath[c]
        rootNode == parse(sourceCode[c])
        apiUrl == extractApiUrlFromFilePath(p)
        run == IF includes(p, sAppApi)
               THEN analyseNextAppRouterApi(codeFile[c], rootNode, apiUrl, p,
                                            <<>>, <<>>, TRUE)
               ELSE analyseNextApiRoute(codeFile[c], rootNode, apiUrl, p,
                                        <<>>, <<>>, TRUE)
    IN  IF \/ ~readyAtEntry[c] \/ sourceCode[c].empty \/ ~isNextApiRoute(p)
           \/ codeFile[c].isNull \/ notRouteFile(p)
        THEN [result |-> <<>>, outcome |-> "returned", demands |-> <<>>]
        ELSE [result |-> run.result,
              outcome |-> IF run.threw THEN "threw" ELSE "returned",
              demands |-> run.demands]

\* C13: whatever the other invocation does while one is suspended at the
\* awaited structurer parse, each invocation returns exactly the Resource
\* list it returns when it runs alone, and the Demands the two scans push
\* are those of the two runs alone, one run after the other: no scan sees
\* the other's accumulator
C13_InterleavedCallsAsAlone ==
    /\ \A c \in Calls :
           Done(c) => /\ result[c] = alone(c).result
                      /\ outcome[c] = alone(c).outcome
    /\ (/\ Done(1) /\ Done(2)
        /\ demandsAtEntry[1] = 0 /\ demandsAtEntry[2] = 0)
           => demands \in {alone(1).demands \o alone(2).demands,
                           alone(2).demands \o alone(1).demands}

\* both invocations were suspended together (each began before any Demand
\* was pushed, each pushed one since), on a pages-router and an app-router
\* file, and returned different non-empty lists
C13_Witness ==
    /\ Done(1) /\ Done(2)
    /\ demandsAtEntry[1] = 0 /\ demandsAtEntry[2] = 0
    /\ exit[1] = "pagesRouter" /\ exit[2] = "appRouter"
    /\ outcome[1] = "returned" /\ outcome[2] = "returned"
    /\ alone(1).demands # <<>> /\ alone(2).demands # <<>>
    /\ result[1] # <<>> /\ result[2] # <<>> /\ result[1] # result[2]
    /\ resources = result[1]

----------------------------------------------------------------------------
(* Properties of buildMessagesForRound (specification SpecPrompt).         *)

\* the number of history messages the returned list keeps: min(10, n)
kept == IF Len(conversationHistory) < 10 THEN Len(conversationHistory) ELSE 10

\* C23: the list buildMessagesForRound returns starts with one system
\* message, the context prompt in round 1 and the continuation prompt in
\* any other round, ends with a user message, and has in between exactly
\* the last min(10, n) of the n history messages in their order: it has
\* min(10, n) + 2 elements
C23_RoundMessagesShape ==
    promptStage = "done" =>
        /\ Len(messages) = kept + 2
        /\ messages[1].role = "system"
        /\ messages[1].content.kind
               = IF round = 1 THEN "context" ELSE "continuation"
        /\ messages[Len(messages)].role = "user"
        /\ messages[Len(messages)].content.kind = "user"
        /\ \A k \in 1..kept :
               messages[1 + k]
                   = conversationHistory[Len(conversationHistory) - kept + k]

\* round 2 with 12 history messages: the list has 12 elements, its second
\* is the third history message and its eleventh the twelfth
C23_Witness ==
    /\ promptStage = "done"
    /\ round = 2
    /\ Len(conversationHistory) = 12
    /\ Len(messages) = 12
    /\ messages[2] = conversationHistory[3]
    /\ messages[11] = conversationHistory[12]

====
